---- MODULE Spec2Model ----
(***************************************************************************)
(* AdGenie trigger detection and scheduling engine.                        *)
(*                                                                         *)
(* Two scheduled Lambdas, check_weather (every three hours) and            *)
(* check_time_triggers (daily), scan the Businesses table, decide per      *)
(* business whether a post should be generated, create a one-off           *)
(* EventBridge Scheduler job for bedrock_generate and record the job in    *)
(* the business's upcomingPosts list (upcomingJobs in the specification).  *)
(*                                                                         *)
(* Time is counted in minutes since 2025-01-01T00:00Z.  An IANA time zone  *)
(* is represented by its UTC offset in minutes (no daylight saving).       *)
(* Temperatures are whole degrees Celsius, precipitation tenths of a       *)
(* millimetre.                                                             *)
(***************************************************************************)
EXTENDS Integers, Sequences, FiniteSets, TLC

VARIABLES
    now,           \* the wall clock, UTC minutes
    business,      \* Businesses table: the static part of every record
    upcomingJobs,  \* Businesses table: the upcomingPosts list of every record
    schedules,     \* EventBridge Scheduler: the one-off schedules created
    run,           \* the Lambda invocations in flight, per slot
    started,       \* how many invocations were started so far
    deployedAt,    \* the minute at which the rate(3 hours) schedule was created
    probe          \* inputs and result of the pure pipeline stages under check

vars == <<now, business, upcomingJobs, schedules, run, started, deployedAt,
          probe>>

----------------------------------------------------------------------------
(* Units and program constants *)

Hours(h) == h * 60
MINUTES_PER_DAY == 24 * 60

\* check_weather runs every three hours
WEATHER_RATE_HOURS == 3
\* check_weather analyses the next 12 hours of hourly forecast
FORECAST_HOURS == 12
\* the sliding window of the scanner
MIN_CONSECUTIVE_HOURS == 2
\* rain: precipitation > 0.2 mm, in tenths of a millimetre
RAIN_THRESHOLD_TENTHS == 2
\* the daily rule of check_time_triggers: cron(10 0 * * ? *)
DAILY_RUN_MINUTE == 10
\* time-based posts go out at 10:00 AM local
POST_HOUR_LOCAL == 10
\* Timeout of CheckWeatherFunction and CheckTimeTriggersFunction
LAMBDA_TIMEOUT_SECONDS == 60

WeatherCategories == {"hot", "cold", "rain"}
TimeCategories == {"weekendSpecials", "paydaySales"}
Categories == WeatherCategories \cup TimeCategories

\* the order in which one business's candidates are handed to the dispatcher
CategoryOrder == <<"hot", "cold", "rain", "weekendSpecials", "paydaySales">>

----------------------------------------------------------------------------
(* Timezone Normalizer *)

LocalMinutesIsUTC(utc, tzOffset) == utc

LocalMinutes(utc, tzOffset) == utc + tzOffset

MinuteOfDay(m) == m % MINUTES_PER_DAY

LocalDate(m) == m \div MINUTES_PER_DAY

ToUTC(localMinutes, tzOffset) == localMinutes - tzOffset

----------------------------------------------------------------------------
(* Business-Hours Filter *)

InBusinessHoursNoWrap(minuteOfDay, open, close) ==
    open <= minuteOfDay /\ minuteOfDay < close

\* close earlier than open: the hours wrap past midnight, two segments
InBusinessHours(minuteOfDay, open, close) ==
    IF open <= close
    THEN open <= minuteOfDay /\ minuteOfDay < close
    ELSE minuteOfDay >= open \/ minuteOfDay < close

WindowEnd(startUTC) == startUTC + Hours(MIN_CONSECUTIVE_HOURS)

HoursFilterOff(startUTC, b) == TRUE

\* a window passes when its local start and its local end are inside the hours
HoursFilter(startUTC, b) ==
    /\ InBusinessHours(MinuteOfDay(LocalMinutes(startUTC, b.timeZone)),
                       b.openTimeLocal, b.closeTimeLocal)
    /\ InBusinessHours(MinuteOfDay(LocalMinutes(WindowEnd(startUTC), b.timeZone)),
                       b.openTimeLocal, b.closeTimeLocal)

----------------------------------------------------------------------------
(* Baseline Calculator: mean and population standard deviation of the      *)
(* historical daily temperatures, the deviation floored at 0.5.  With      *)
(* n samples, sum S and sum of squares Q:  mu = S/n,                       *)
(* sigma^2 = max((n*Q - S^2)/n^2, 1/4).  Everything is kept in integers by *)
(* scaling with n and 2n.                                                  *)

RECURSIVE Sum(_)
Sum(s) == IF s = <<>> THEN 0 ELSE Head(s) + Sum(Tail(s))

RECURSIVE SumSq(_)
SumSq(s) == IF s = <<>> THEN 0 ELSE Head(s) * Head(s) + SumSq(Tail(s))

Max(a, b) == IF a >= b THEN a ELSE b

\* n * (t - mu)
ScaledDeviation(t, samples) == Len(samples) * t - Sum(samples)

\* 4 * n^2 * populationVariance
ScaledVariance(samples) ==
    4 * (Len(samples) * SumSq(samples) - Sum(samples) * Sum(samples))

ScaledSigmaSqNoFloor(samples) == ScaledVariance(samples)

\* 4 * n^2 * sigma^2, sigma floored at 0.5
ScaledSigmaSq(samples) ==
    Max(ScaledVariance(samples), Len(samples) * Len(samples))

\* |t - mu| > 1.5 * sigma  <=>  16 * (n(t - mu))^2 > 9 * (4 n^2 sigma^2)
BeyondBand(t, samples) ==
    16 * ScaledDeviation(t, samples) * ScaledDeviation(t, samples)
        > 9 * ScaledSigmaSq(samples)

IsHot(t, samples) == ScaledDeviation(t, samples) > 0 /\ BeyondBand(t, samples)

IsCold(t, samples) == ScaledDeviation(t, samples) < 0 /\ BeyondBand(t, samples)

----------------------------------------------------------------------------
(* Forecast Window Scanner *)

PointIs(c, point, samples) ==
    CASE c = "hot"  -> IsHot(point.temperature, samples)
      [] c = "cold" -> IsCold(point.temperature, samples)
      [] c = "rain" -> point.precipitation > RAIN_THRESHOLD_TENTHS
      [] OTHER      -> FALSE

Positions(forecast) == 1..(Len(forecast) - MIN_CONSECUTIVE_HOURS + 1)

WindowQualifiesAnyHour(forecast, i, c, samples) ==
    \E j \in i..(i + MIN_CONSECUTIVE_HOURS - 1) : PointIs(c, forecast[j], samples)

\* every hour of the window that starts at position i satisfies c
WindowQualifies(forecast, i, c, samples) ==
    \A j \in i..(i + MIN_CONSECUTIVE_HOURS - 1) : PointIs(c, forecast[j], samples)

WindowStartAtEnd(evalTime, i) ==
    (evalTime \div 60) * 60 + Hours(i - 1 + MIN_CONSECUTIVE_HOURS)

\* the forecast starts at the hour of the evaluation
WindowStart(evalTime, i) ==
    (evalTime \div 60) * 60 + Hours(i - 1)

SetMinIsLast(S) == CHOOSE x \in S : \A y \in S : x >= y

SetMin(S) == CHOOSE x \in S : \A y \in S : x <= y

----------------------------------------------------------------------------
(* Trigger Preference Matcher *)

PreferenceForSwapped(c) ==
    CASE c = "hot"  -> "rainy"
      [] c = "cold" -> "coolPleasant"
      [] c = "rain" -> "hotSunny"
      [] OTHER      -> c

PreferenceFor(c) ==
    CASE c = "hot"  -> "hotSunny"
      [] c = "cold" -> "coolPleasant"
      [] c = "rain" -> "rainy"
      [] OTHER      -> c

PreferenceEnabled(b, c) == PreferenceFor(c) \in b.triggers

----------------------------------------------------------------------------
(* check_weather, per business: detect, filter, match *)

\* the windows of category c that are inside the operating hours
ValidPositions(b, forecast, samples, evalTime, c) ==
    { i \in Positions(forecast) :
        /\ WindowQualifies(forecast, i, c, samples)
        /\ HoursFilter(WindowStart(evalTime, i), b) }

WeatherHit(b, forecast, samples, evalTime, c) ==
    /\ c \in WeatherCategories
    /\ PreferenceEnabled(b, c)
    /\ ValidPositions(b, forecast, samples, evalTime, c) # {}

Candidate(c, t) == [triggerCategory |-> c, scheduledTimeUTC |-> t]

\* the earliest qualifying window of every category, kept if in the hours
WeatherCandidatesScanFirst(b, forecast, samples, evalTime) ==
    LET starts(c) == { i \in Positions(forecast) :
                          WindowQualifies(forecast, i, c, samples) }
        hits == SelectSeq(CategoryOrder,
                   LAMBDA c : /\ c \in WeatherCategories
                              /\ PreferenceEnabled(b, c)
                              /\ starts(c) # {}
                              /\ HoursFilter(WindowStart(evalTime, SetMin(starts(c))), b))
    IN  [ k \in 1..Len(hits) |->
            Candidate(hits[k], WindowStart(evalTime, SetMin(starts(hits[k])))) ]

\* the first valid window of every kept category, scheduled at its start
WeatherCandidates(b, forecast, samples, evalTime) ==
    LET hits == SelectSeq(CategoryOrder,
                   LAMBDA c : WeatherHit(b, forecast, samples, evalTime, c))
    IN  [ k \in 1..Len(hits) |->
            Candidate(hits[k],
                WindowStart(evalTime,
                    SetMin(ValidPositions(b, forecast, samples, evalTime, hits[k])))) ]

----------------------------------------------------------------------------
(* Time-Based Rule Evaluator.  Day 0 is 2025-01-01, a Wednesday.           *)

DaysInMonth2025 == <<31, 28, 31, 30, 31, 30, 31, 31, 30, 31, 30, 31>>

\* Python's date.weekday(): Monday is 0, Sunday is 6
Weekday(d) == (d + 2) % 7

RECURSIVE DayOfMonthFrom(_, _)
DayOfMonthFrom(d, month) ==
    IF month >= 12 \/ d < DaysInMonth2025[month]
    THEN d + 1
    ELSE DayOfMonthFrom(d - DaysInMonth2025[month], month + 1)

DayOfMonth(d) == DayOfMonthFrom(d, 1)

PAYDAY_DAYS == {1, 15}

RuleFires(c, localDate) ==
    CASE c = "weekendSpecials" -> Weekday(localDate) \in {5, 6}
      [] c = "paydaySales"     -> DayOfMonth(localDate) \in PAYDAY_DAYS
      [] OTHER                 -> FALSE

TenLocalAsUTC(localDate, tzOffset) ==
    localDate * MINUTES_PER_DAY + Hours(POST_HOUR_LOCAL)

\* 10:00 local on the given local date, in UTC
TenLocal(localDate, tzOffset) ==
    ToUTC(localDate * MINUTES_PER_DAY + Hours(POST_HOUR_LOCAL), tzOffset)

TimeTargetNoRoll(nowUTC, tzOffset) ==
    TenLocal(LocalDate(LocalMinutes(nowUTC, tzOffset)), tzOffset)

TimeTargetRollsEast(nowUTC, tzOffset) ==
    LET today == TenLocal(LocalDate(LocalMinutes(nowUTC, tzOffset)), tzOffset)
    IN  IF tzOffset > 0 THEN today + MINUTES_PER_DAY ELSE today

\* 10:00 local today, or tomorrow when today's has passed
TimeTarget(nowUTC, tzOffset) ==
    LET today == TenLocal(LocalDate(LocalMinutes(nowUTC, tzOffset)), tzOffset)
    IN  IF today <= nowUTC THEN today + MINUTES_PER_DAY ELSE today

TimeHit(b, nowUTC, c) ==
    /\ c \in TimeCategories
    /\ PreferenceEnabled(b, c)
    /\ RuleFires(c, LocalDate(LocalMinutes(nowUTC, b.timeZone)))

TimeCandidates(b, nowUTC) ==
    LET hits == SelectSeq(CategoryOrder, LAMBDA c : TimeHit(b, nowUTC, c))
    IN  [ k \in 1..Len(hits) |->
            Candidate(hits[k], TimeTarget(nowUTC, b.timeZone)) ]

----------------------------------------------------------------------------
(* The Businesses table, the weather service and the bounds of the model   *)

Businesses == {"b1", "b2"}

\* the first evaluated day: 32 is Sunday 2025-02-02
StartDays == {32}
\* the minute of the three hours at which the weather schedule was created
DeployMinutes == {10}
\* the clock stops this many hours after midnight
MaxHours == 4
\* Lambda invocations started in one behaviour
MaxRuns == 2

AllFlags == {"hotSunny", "rainy", "coolPleasant", "weekendSpecials", "paydaySales"}

\* UTC+10, open 08:00-20:00, every trigger enabled
Bakery ==
    [hasTimeZone |-> TRUE, hasHours |-> TRUE, timeZone |-> 600,
     openTimeLocal |-> Hours(8), closeTimeLocal |-> Hours(20),
     triggers |-> AllFlags]

\* UTC-5, open 18:00-02:00 (overnight), rain and weekend posts only
Bar ==
    [hasTimeZone |-> TRUE, hasHours |-> TRUE, timeZone |-> 0 - 300,
     openTimeLocal |-> Hours(18), closeTimeLocal |-> Hours(2),
     triggers |-> {"rainy", "weekendSpecials"}]

\* a record without time zone and operating hours
Incomplete ==
    [hasTimeZone |-> FALSE, hasHours |-> FALSE, timeZone |-> 0,
     openTimeLocal |-> 0, closeTimeLocal |-> 0,
     triggers |-> AllFlags]

\* the tables the model starts from
Tables ==
    { [b1 |-> Bakery, b2 |-> Bar], [b1 |-> Bakery, b2 |-> Incomplete] }

WellFormed(b) == b.hasTimeZone /\ b.hasHours

\* 30 days of history reduced to two samples: mu = 28, sigma = 2
History == <<26, 30>>

Point(t, p) == [temperature |-> t, precipitation |-> p]

\* an hourly forecast: 33 degrees in the hot hours, 5 mm in the wet hours
Forecast(hotHours, wetHours) ==
    [ i \in 1..FORECAST_HOURS |->
        Point(IF i \in hotHours THEN 33 ELSE 28,
              IF i \in wetHours THEN 50 ELSE 0) ]

\* a hot spell now; rain in the second and third hour; rain in the eighth
\* and ninth hour
Forecasts ==
    { Forecast({1, 2}, {}), Forecast({}, {2, 3}), Forecast({}, {8, 9}) }

\* what the Open-Meteo calls of one business return
WeatherResponses ==
    { [ok |-> FALSE, history |-> <<>>, forecast |-> <<>>] }
    \cup { [ok |-> TRUE, history |-> <<>>, forecast |-> Forecast({}, {8, 9})] }
    \cup { [ok |-> TRUE, history |-> History, forecast |-> f] : f \in Forecasts }

----------------------------------------------------------------------------
(* The two Lambdas and their deployment (template.yaml) *)

\* two invocations can be in flight at a time, of either function
Runs == {"r1", "r2"}

Kinds == {"weather", "time"}

\* CheckWeatherFunction: DynamoDBReadPolicy and DynamoDBWritePolicy;
\* CheckTimeTriggersFunction: DynamoDBReadPolicy only
CanWrite(kind) == kind = "weather"

\* Schedule3h: rate(3 hours), counted from the creation of the schedule;
\* TimeTriggerDailyRule: cron(10 0 * * ? *)
DueNow(kind, t, phase) ==
    IF kind = "weather"
    THEN t % Hours(WEATHER_RATE_HOURS) = phase
    ELSE t % MINUTES_PER_DAY = DAILY_RUN_MINUTE

\* the horizon of an evaluation: the hours of the forecast, or the day
\* that follows the evaluation
HorizonStart(kind, evalTime) ==
    IF kind = "weather" THEN WindowStart(evalTime, 1) ELSE evalTime

HorizonZero(kind) == 0

HorizonOf(kind) ==
    IF kind = "weather" THEN Hours(FORECAST_HOURS) ELSE MINUTES_PER_DAY

----------------------------------------------------------------------------
(* Schedule Dispatcher & Dedup Ledger *)

ScheduleNamePerRun(b, c, t, r) == <<b, c, t, r>>

ScheduleNameShared(b, c, t, r) == <<c, t>>

\* the name of the one-off schedule: the same job gets the same name
ScheduleName(b, c, t, r) == <<b, c, t>>

Invocation(b, cand, r) ==
    [name |-> ScheduleName(b, cand.triggerCategory, cand.scheduledTimeUTC, r),
     businessId |-> b,
     triggerCategory |-> cand.triggerCategory,
     scheduledTimeUTC |-> cand.scheduledTimeUTC]

Entry(b, cand, r) ==
    [triggerCategory |-> cand.triggerCategory,
     scheduledTimeUTC |-> cand.scheduledTimeUTC,
     schedulingReference |->
        ScheduleName(b, cand.triggerCategory, cand.scheduledTimeUTC, r)]

IsDuplicateNever(jobs, cand, t0, horizon) == FALSE

IsDuplicateOfInvocation(jobs, cand, t0, horizon) ==
    \E s \in schedules : s.triggerCategory = cand.triggerCategory

\* an entry of the same category inside the horizon that starts at t0
IsDuplicate(jobs, cand, t0, horizon) ==
    \E k \in 1..Len(jobs) :
        /\ jobs[k].triggerCategory = cand.triggerCategory
        /\ jobs[k].scheduledTimeUTC >= t0
        /\ jobs[k].scheduledTimeUTC < t0 + horizon

\* CreateSchedule is idempotent in the name
CreateSchedule(set, inv) ==
    IF \E s \in set : s.name = inv.name THEN set ELSE set \cup {inv}

WriteConditionNone(stored, read) == TRUE

\* the condition of the update: the stored list is still the list read
WriteCondition(stored, read) == stored = read

RemoveAt(seq, i) == SubSeq(seq, 1, i - 1) \o SubSeq(seq, i + 1, Len(seq))

IdleRun ==
    [pc |-> "idle", kind |-> "none", evalTime |-> 0, todo |-> {}, cur |-> "none",
     snapshot |-> <<>>, candidates |-> <<>>,
     skipped |-> {}, results |-> {}]

Result(b, cand, outcome) ==
    [businessId |-> b, triggerCategory |-> cand.triggerCategory,
     scheduledTimeUTC |-> cand.scheduledTimeUTC, outcome |-> outcome]

Skip(b, why) == [businessId |-> b, reason |-> why]

----------------------------------------------------------------------------
(* Actions *)

Init ==
    /\ now \in {d * MINUTES_PER_DAY : d \in StartDays}
    /\ business \in Tables
    /\ upcomingJobs = [b \in Businesses |-> <<>>]
    /\ schedules = {}
    /\ run = [r \in Runs |-> IdleRun]
    /\ started = 0
    /\ deployedAt \in DeployMinutes
    /\ probe = <<>>

IsDue(t) == DueNow("weather", t, deployedAt) \/ DueNow("time", t, deployedAt)

\* the clock moves to the next instant at which a Lambda is due; that is
\* minutes away, and an invocation ends after LAMBDA_TIMEOUT_SECONDS at the
\* latest: the invocations in flight are cut off where they are
RECURSIVE NextInstant(_)
NextInstant(t) ==
    IF IsDue(t + DAILY_RUN_MINUTE) THEN t + DAILY_RUN_MINUTE
    ELSE NextInstant(t + DAILY_RUN_MINUTE)

Tick ==
    /\ MinuteOfDay(NextInstant(now)) <= Hours(MaxHours)
    /\ now' = NextInstant(now)
    /\ run' = [r \in Runs |-> IdleRun]
    /\ UNCHANGED <<business, upcomingJobs, schedules, started, deployedAt, probe>>

\* EventBridge invokes the Lambda; the handler scans the table.  r2 is the
\* invocation that overlaps r1
StartRun(r, kind) ==
    /\ run[r].pc \in {"idle", "done"}
    /\ r = "r2" => run["r1"].pc \notin {"idle", "done"}
    /\ started < MaxRuns
    /\ DueNow(kind, now, deployedAt)
    /\ run' = [run EXCEPT ![r] = [IdleRun EXCEPT !.pc = "scan", !.kind = kind,
                                                 !.todo = Businesses]]
    /\ started' = started + 1
    /\ UNCHANGED <<now, business, upcomingJobs, schedules, deployedAt, probe>>

SkipBusinessAbort(rec, b, why) ==
    [rec EXCEPT !.todo = IF why = "NoTrigger" THEN @ \ {b} ELSE {},
                !.skipped = @ \cup {Skip(b, why)},
                !.pc = IF why # "NoTrigger" \/ rec.todo \ {b} = {}
                       THEN "done" ELSE "scan"]

SkipBusinessKeepsTodo(rec, b, why) ==
    [rec EXCEPT !.skipped = @ \cup {Skip(b, why)}]

\* the run is through with business b without a candidate; the failure of
\* one business is caught and the scan goes on
SkipBusiness(rec, b, why) ==
    [rec EXCEPT !.todo = @ \ {b},
                !.skipped = @ \cup {Skip(b, why)},
                !.pc = IF rec.todo \ {b} = {} THEN "done" ELSE "scan"]

\* the run is through with the candidate at the head
Advance(rec, res) ==
    IF Tail(rec.candidates) = <<>>
    THEN [rec EXCEPT !.results = @ \cup {res},
                     !.candidates = <<>>,
                     !.todo = @ \ {rec.cur},
                     !.cur = "none",
                     !.snapshot = <<>>,
                     !.pc = IF rec.todo \ {rec.cur} = {} THEN "done" ELSE "scan"]
    ELSE [rec EXCEPT !.results = @ \cup {res},
                     !.candidates = Tail(@),
                     !.pc = "dedup"]

\* dedup: candidates with a pending entry in the record as read are dropped
RECURSIVE Dedup(_, _)
Dedup(rec, kind) ==
    IF rec.pc # "dedup" THEN rec
    ELSE IF IsDuplicate(rec.snapshot, Head(rec.candidates),
                        HorizonStart(kind, rec.evalTime), HorizonOf(kind))
    THEN Dedup(Advance(rec, Result(rec.cur, Head(rec.candidates),
                                   "DuplicateSuppressed")), kind)
    ELSE rec

\* the run reads the record of b and takes its candidates to the dispatcher
BeginBusiness(rec, b, cands, kind) ==
    IF cands = <<>>
    THEN SkipBusiness(rec, b, "NoTrigger")
    ELSE Dedup([rec EXCEPT !.pc = "dedup", !.cur = b, !.evalTime = now,
                           !.snapshot = upcomingJobs[b],
                           !.candidates = cands], kind)

FailedCreateAppends(rec, kind) == [rec EXCEPT !.pc = "append"]

\* the scheduler did not create the schedule: nothing is recorded
FailedCreate(rec, kind) ==
    Dedup(Advance(rec, Result(rec.cur, Head(rec.candidates),
                              "SchedulingFailure")), kind)

\* the table scan returns the records in this order
ScanOrder == <<"b1", "b2">>

NextBusiness(todo) ==
    ScanOrder[SetMin({k \in 1..Len(ScanOrder) : ScanOrder[k] \in todo})]

AtBusiness(r, b) ==
    /\ run[r].pc = "scan"
    /\ b = NextBusiness(run[r].todo)

SkipMalformed(r, b) ==
    /\ AtBusiness(r, b)
    /\ ~WellFormed(business[b])
    /\ run' = [run EXCEPT ![r] = SkipBusiness(@, b, "MalformedRecord")]
    /\ UNCHANGED <<now, business, upcomingJobs, schedules, started, deployedAt, probe>>

\* check_weather: fetch history and forecast, detect, filter, match, dedup
WeatherOutcome(rec, b, resp) ==
    IF ~resp.ok THEN SkipBusiness(rec, b, "DataUnavailable")
    ELSE IF resp.history = <<>>
    THEN SkipBusiness(rec, b, "InsufficientBaseline")
    ELSE BeginBusiness(rec, b,
            WeatherCandidates(business[b], resp.forecast, resp.history, now),
            "weather")

EvaluateWeather(r, b) ==
    /\ run[r].kind = "weather"
    /\ AtBusiness(r, b)
    /\ WellFormed(business[b])
    /\ \E resp \in WeatherResponses :
          run' = [run EXCEPT ![r] = WeatherOutcome(@, b, resp)]
    /\ UNCHANGED <<now, business, upcomingJobs, schedules, started, deployedAt, probe>>

\* check_time_triggers: evaluate the calendar rules on the local date, dedup
EvaluateTime(r, b) ==
    /\ run[r].kind = "time"
    /\ AtBusiness(r, b)
    /\ WellFormed(business[b])
    /\ run' = [run EXCEPT ![r] =
                  BeginBusiness(@, b, TimeCandidates(business[b], now), "time")]
    /\ UNCHANGED <<now, business, upcomingJobs, schedules, started, deployedAt, probe>>

\* no duplicate: the Job Scheduling Service creates the one-off schedule
CreateOk(r) ==
    /\ run[r].pc = "dedup"
    /\ schedules' = CreateSchedule(schedules,
                        Invocation(run[r].cur, Head(run[r].candidates), r))
    /\ run' = [run EXCEPT ![r].pc = "append"]
    /\ UNCHANGED <<now, business, upcomingJobs, started, deployedAt, probe>>

\* no duplicate, but the Job Scheduling Service rejects or times out
CreateFails(r) ==
    /\ run[r].pc = "dedup"
    /\ run' = [run EXCEPT ![r] = FailedCreate(@, @.kind)]
    /\ UNCHANGED <<now, business, upcomingJobs, schedules, started, deployedAt, probe>>

\* the conditional update of the record: the stored list is the one read
AppendEntry(r) ==
    /\ run[r].pc = "append"
    /\ CanWrite(run[r].kind)
    /\ WriteCondition(upcomingJobs[run[r].cur], run[r].snapshot)
    /\ upcomingJobs' = [upcomingJobs EXCEPT ![run[r].cur] =
                           Append(run[r].snapshot,
                                  Entry(run[r].cur, Head(run[r].candidates), r))]
    /\ run' = [run EXCEPT ![r] =
                  Dedup(Advance([run[r] EXCEPT !.snapshot = upcomingJobs'[run[r].cur]],
                                Result(run[r].cur, Head(run[r].candidates),
                                       "Scheduled")), run[r].kind)]
    /\ UNCHANGED <<now, business, schedules, started, deployedAt, probe>>

\* the conditional update fails: read the record again and check again
AppendConflict(r) ==
    /\ run[r].pc = "append"
    /\ CanWrite(run[r].kind)
    /\ ~WriteCondition(upcomingJobs[run[r].cur], run[r].snapshot)
    /\ run' = [run EXCEPT ![r] =
                  Dedup([run[r] EXCEPT !.snapshot = upcomingJobs[run[r].cur],
                                       !.pc = "dedup"], run[r].kind)]
    /\ UNCHANGED <<now, business, upcomingJobs, schedules, started, deployedAt, probe>>

\* the function has no permission to write the table
AppendDenied(r) ==
    /\ run[r].pc = "append"
    /\ ~CanWrite(run[r].kind)
    /\ run' = [run EXCEPT ![r] =
                  Dedup(Advance(@, Result(@.cur, Head(@.candidates),
                                          "WriteDenied")), run[r].kind)]
    /\ UNCHANGED <<now, business, upcomingJobs, schedules, started, deployedAt, probe>>

\* bedrock_generate has fired for an entry and takes it off the list
Consume(b, i) ==
    /\ i \in 1..Len(upcomingJobs[b])
    /\ upcomingJobs[b][i].scheduledTimeUTC <= now
    /\ upcomingJobs' = [upcomingJobs EXCEPT ![b] = RemoveAt(@, i)]
    /\ UNCHANGED <<now, business, schedules, run, started, deployedAt, probe>>

Next ==
    \/ Tick
    \/ \E r \in Runs, kind \in Kinds : StartRun(r, kind)
    \/ \E r \in Runs, b \in Businesses : SkipMalformed(r, b)
    \/ \E r \in Runs, b \in Businesses : EvaluateWeather(r, b)
    \/ \E r \in Runs, b \in Businesses : EvaluateTime(r, b)
    \/ \E r \in Runs : CreateOk(r)
    \/ \E r \in Runs : CreateFails(r)
    \/ \E r \in Runs : AppendEntry(r)
    \/ \E r \in Runs : AppendConflict(r)
    \/ \E r \in Runs : AppendDenied(r)
    \/ \E b \in Businesses, i \in 1..2 : Consume(b, i)

Spec == Init /\ [][Next]_vars

----------------------------------------------------------------------------
(* Properties of the engine *)

KindOfCategory(c) == IF c \in WeatherCategories THEN "weather" ELSE "time"

\* the latest instant, not after t, at which the Lambda of this kind was due
RECURSIVE LatestDue(_, _)
LatestDue(kind, t) ==
    IF DueNow(kind, t, deployedAt) THEN t
    ELSE LatestDue(kind, t - DAILY_RUN_MINUTE)

\* the forward-looking cycle of the latest evaluation: twelve forecast
\* hours from the hour of the evaluation, or the day after the daily run
CycleStart(c) ==
    IF c \in WeatherCategories
    THEN (LatestDue("weather", now) \div 60) * 60
    ELSE LatestDue("time", now)

CycleLength(c) ==
    IF c \in WeatherCategories THEN FORECAST_HOURS * 60 ELSE 24 * 60

InCurrentCycle(c, t) ==
    CycleStart(c) <= t /\ t < CycleStart(c) + CycleLength(c)

PendingInCycle(b, c) ==
    { k \in 1..Len(upcomingJobs[b]) :
        /\ upcomingJobs[b][k].triggerCategory = c
        /\ InCurrentCycle(c, upcomingJobs[b][k].scheduledTimeUTC) }

Outcomes(r, b, c, t) ==
    { res.outcome : res \in
        { x \in run[r].results : /\ x.businessId = b
                                 /\ x.triggerCategory = c
                                 /\ x.scheduledTimeUTC = t } }

InvocationsFor(b, c, t) ==
    { s \in schedules : /\ s.businessId = b
                        /\ s.triggerCategory = c
                        /\ s.scheduledTimeUTC = t }

EntryPresent(b, c, t) ==
    \E k \in 1..Len(upcomingJobs[b]) :
        /\ upcomingJobs[b][k].triggerCategory = c
        /\ upcomingJobs[b][k].scheduledTimeUTC = t

\* C1: a business never holds two entries of the same triggerCategory whose
\* scheduledTimeUTC both fall within the forward-looking cycle of one
\* evaluation, whatever weather runs, daily runs and consumptions happened
C1_DedupInvariant ==
    \A b \in Businesses, c \in Categories : Cardinality(PendingInCycle(b, c)) <= 1

\* a later cycle has found a window of a category whose job, scheduled by
\* an earlier cycle for another hour of the same horizon, is still listed:
\* the candidate is suppressed and the entry stays the only one
C1_Witness ==
    \E r \in Runs : \E res \in run[r].results :
        /\ now % (24 * 60) >= 3 * 60
        /\ res.outcome = "DuplicateSuppressed"
        /\ Cardinality(PendingInCycle(res.businessId, res.triggerCategory)) = 1
        /\ \E k \in PendingInCycle(res.businessId, res.triggerCategory) :
              upcomingJobs[res.businessId][k].scheduledTimeUTC
                  > res.scheduledTimeUTC + 2 * 60

C4_NoEntryLost ==
    (run["r1"].pc = "done" /\ run["r2"].pc = "done") =>
        \A r \in Runs : \A res \in run[r].results :
            (res.outcome \in {"Scheduled", "WriteDenied"}
                /\ res.scheduledTimeUTC > now)
            => EntryPresent(res.businessId, res.triggerCategory,
                            res.scheduledTimeUTC)

\* C5: every entry of upcomingJobs refers to a one-off invocation that the
\* scheduler created for that business, category and instant; a failed
\* request leaves no entry
C5_EntriesAreCreated ==
    \A b \in Businesses : \A k \in 1..Len(upcomingJobs[b]) :
        \E s \in schedules :
            /\ s.name = upcomingJobs[b][k].schedulingReference
            /\ s.businessId = b
            /\ s.triggerCategory = upcomingJobs[b][k].triggerCategory
            /\ s.scheduledTimeUTC = upcomingJobs[b][k].scheduledTimeUTC

\* a run is through, the request for one of its candidates failed, and the
\* record holds no entry for it
C5_Witness ==
    \E r \in Runs : \E res \in run[r].results :
        /\ run[r].pc = "done"
        /\ res.outcome = "SchedulingFailure"
        /\ InvocationsFor(res.businessId, res.triggerCategory,
                          res.scheduledTimeUTC) = {}
        /\ ~EntryPresent(res.businessId, res.triggerCategory,
                         res.scheduledTimeUTC)

Processed(r, b) ==
    \/ \E x \in run[r].skipped : x.businessId = b
    \/ \E x \in run[r].results : x.businessId = b

Failed(r, b) ==
    \/ \E x \in run[r].skipped :
          x.businessId = b /\ x.reason \in {"DataUnavailable", "MalformedRecord"}
    \/ \E x \in run[r].results :
          x.businessId = b /\ x.outcome = "SchedulingFailure"

SessionOpen(b, d) == d * 24 * 60 + b.openTimeLocal

SessionClose(b, d) ==
    IF b.closeTimeLocal > b.openTimeLocal
    THEN d * 24 * 60 + b.closeTimeLocal
    ELSE IF b.closeTimeLocal < b.openTimeLocal
         THEN (d + 1) * 24 * 60 + b.closeTimeLocal
         ELSE SessionOpen(b, d)

\* the local instant lies in a session that opened today or yesterday
InSession(b, local) ==
    \E d \in {(local \div (24 * 60)) - 1, local \div (24 * 60)} :
        SessionOpen(b, d) <= local /\ local < SessionClose(b, d)

----------------------------------------------------------------------------
(* The stages of the pipeline on their own: the inputs are drawn by the    *)
(* initial state, one action per stage applies it                          *)

\* UTC-5, UTC, UTC+5:30, UTC+10
ProbeOffsets == {0 - 300, 0, 330, 600}

\* opening and closing times: the full hours and two half hours
ProbeClock == {Hours(h) : h \in 0..23} \cup {Hours(5) + 30, Hours(19) + 30}

\* the hours at which a window can start on the first evaluated day
ProbeStarts == {d * MINUTES_PER_DAY + Hours(h) : d \in StartDays, h \in 0..23}

HoursInputs ==
    { [stage |-> "hours", applied |-> FALSE, timeZone |-> tz,
       openTimeLocal |-> o, closeTimeLocal |-> c, startUTC |-> t,
       accepted |-> FALSE] :
        tz \in ProbeOffsets, o \in ProbeClock, c \in ProbeClock, t \in ProbeStarts }

\* the daily run as the README has it (00:05 UTC) and as it is deployed
\* (00:10 UTC), in every time zone from UTC-12 to UTC+14
ProbeRunMinutes == {5, DAILY_RUN_MINUTE}

TimeInputs ==
    { [stage |-> "time", applied |-> FALSE, nowUTC |-> d * MINUTES_PER_DAY + m,
       timeZone |-> 30 * z, target |-> 0] :
        d \in StartDays, m \in ProbeRunMinutes, z \in (0 - 24)..28 }

\* per hour: cold, usual or hot, dry or wet
ProbePoints == { Point(t, p) : t \in {23, 28, 33}, p \in {0, 50} }

ProbeForecasts == [1..3 -> ProbePoints]

\* Saturday 2025-02-01, 00:10 UTC: a weekend day and a payday in UTC+10
ProbeEvalTime == 31 * MINUTES_PER_DAY + DAILY_RUN_MINUTE

MatchInputs ==
    { [stage |-> "match", applied |-> FALSE, triggers |-> fl, forecast |-> f,
       candidates |-> <<>>] :
        fl \in SUBSET AllFlags, f \in ProbeForecasts }

\* UTC-12, UTC-5, UTC, UTC+10, UTC+14
RuleOffsets == {0 - 720, 0 - 300, 0, 600, 840}

\* the daily run on each day from Saturday 2025-02-01 to Saturday
\* 2025-02-08, for two businesses evaluated at the same instant
RuleInputs ==
    { [stage |-> "rule", applied |-> FALSE, nowUTC |-> d * MINUTES_PER_DAY + m,
       timeZoneA |-> za, timeZoneB |-> zb, firesA |-> FALSE, firesB |-> FALSE] :
        d \in 31..38, m \in ProbeRunMinutes, za \in RuleOffsets, zb \in RuleOffsets }

\* the historical samples of a probe: at most this many
MaxSamples == 3

ProbeTemperatures == {20, 27, 28, 29}

BaselineInputs ==
    { [stage |-> "baseline", applied |-> FALSE, samples |-> h, sigmaSq |-> 0] :
        h \in UNION { [1..n -> ProbeTemperatures] : n \in 1..MaxSamples } }

\* with History the band is 25..31: 24 and 32 are beyond it, 25 and 31 on
\* its edges; 0.2 mm is on the rain threshold, 0.3 mm above it
ScanPoints ==
    { Point(t, 0) : t \in {24, 25, 30, 31, 32, 33} }
        \cup { Point(30, p) : p \in {RAIN_THRESHOLD_TENTHS, RAIN_THRESHOLD_TENTHS + 1} }

ScanForecasts == [1..4 -> ScanPoints]

\* the business opens at 08:00 or at 11:00 local; the forecast begins at
\* 10:00 local
ScanOpenTimes == {Hours(8), Hours(11)}

ScanInputs ==
    { [stage |-> "scan", applied |-> FALSE, openTimeLocal |-> o, forecast |-> f,
       candidates |-> <<>>] :
        o \in ScanOpenTimes, f \in ScanForecasts }

StagesInit ==
    /\ probe \in HoursInputs \cup TimeInputs \cup MatchInputs \cup RuleInputs
                  \cup BaselineInputs \cup ScanInputs
    /\ now \in {d * MINUTES_PER_DAY : d \in StartDays}
    /\ business = [b \in Businesses |-> Bakery]
    /\ upcomingJobs = [b \in Businesses |-> <<>>]
    /\ schedules = {}
    /\ run = [r \in Runs |-> IdleRun]
    /\ started = 0
    /\ deployedAt = DAILY_RUN_MINUTE

ApplyHoursFilter ==
    /\ probe.stage = "hours"
    /\ ~probe.applied
    /\ probe' = [probe EXCEPT !.applied = TRUE,
                              !.accepted = HoursFilter(probe.startUTC,
                                  [Bakery EXCEPT !.timeZone = probe.timeZone,
                                                 !.openTimeLocal = probe.openTimeLocal,
                                                 !.closeTimeLocal = probe.closeTimeLocal])]
    /\ UNCHANGED <<now, business, upcomingJobs, schedules, run, started, deployedAt>>

ApplyTimeTarget ==
    /\ probe.stage = "time"
    /\ ~probe.applied
    /\ probe' = [probe EXCEPT !.applied = TRUE,
                              !.target = TimeTarget(probe.nowUTC, probe.timeZone)]
    /\ UNCHANGED <<now, business, upcomingJobs, schedules, run, started, deployedAt>>

ApplyMatcher ==
    /\ probe.stage = "match"
    /\ ~probe.applied
    /\ probe' = [probe EXCEPT
            !.applied = TRUE,
            !.candidates =
                LET b == [Bakery EXCEPT !.triggers = probe.triggers]
                IN  WeatherCandidates(b, probe.forecast, History, ProbeEvalTime)
                        \o TimeCandidates(b, ProbeEvalTime)]
    /\ UNCHANGED <<now, business, upcomingJobs, schedules, run, started, deployedAt>>

ApplyWeekendRule ==
    /\ probe.stage = "rule"
    /\ ~probe.applied
    /\ probe' = [probe EXCEPT
            !.applied = TRUE,
            !.firesA = TimeHit([Bakery EXCEPT !.timeZone = probe.timeZoneA],
                               probe.nowUTC, "weekendSpecials"),
            !.firesB = TimeHit([Bakery EXCEPT !.timeZone = probe.timeZoneB],
                               probe.nowUTC, "weekendSpecials")]
    /\ UNCHANGED <<now, business, upcomingJobs, schedules, run, started, deployedAt>>

ApplyBaseline ==
    /\ probe.stage = "baseline"
    /\ ~probe.applied
    /\ probe' = [probe EXCEPT !.applied = TRUE,
                              !.sigmaSq = ScaledSigmaSq(probe.samples)]
    /\ UNCHANGED <<now, business, upcomingJobs, schedules, run, started, deployedAt>>

\* check_weather on one forecast: detect, filter, match
ApplyScanner ==
    /\ probe.stage = "scan"
    /\ ~probe.applied
    /\ probe' = [probe EXCEPT
            !.applied = TRUE,
            !.candidates =
                WeatherCandidates([Bakery EXCEPT !.openTimeLocal = probe.openTimeLocal],
                                  probe.forecast, History, ProbeEvalTime)]
    /\ UNCHANGED <<now, business, upcomingJobs, schedules, run, started, deployedAt>>

StagesNext ==
    \/ ApplyBaseline
    \/ ApplyScanner
    \/ ApplyHoursFilter
    \/ ApplyTimeTarget
    \/ ApplyMatcher
    \/ ApplyWeekendRule

SpecStages == StagesInit /\ [][StagesNext]_vars

ProbeBusiness ==
    [timeZone |-> probe.timeZone, openTimeLocal |-> probe.openTimeLocal,
     closeTimeLocal |-> probe.closeTimeLocal]

\* every half hour of the window, its start and its end included
ProbeWindowInstants ==
    { probe.startUTC + probe.timeZone + 30 * k : k \in 0..4 }

\* the part of the day the business is closed, from closing time round to
\* opening time, is shorter than a window
ShortClosedGap ==
    (probe.openTimeLocal - probe.closeTimeLocal + 24 * 60) % (24 * 60) < 2 * 60

C8_OnlyPreferred ==
    (probe.stage = "match" /\ probe.applied) =>
        /\ \A k \in 1..Len(probe.candidates) :
              LET c == probe.candidates[k].triggerCategory
              IN  /\ c = "hot" => "hotSunny" \in probe.triggers
                  /\ c = "cold" => "coolPleasant" \in probe.triggers
                  /\ c = "rain" => "rainy" \in probe.triggers
                  /\ c = "weekendSpecials" => "weekendSpecials" \in probe.triggers
                  /\ c = "paydaySales" => "paydaySales" \in probe.triggers
        /\ probe.triggers \cap {"hotSunny", "coolPleasant", "rainy"} = {"rainy"}
              => \A k \in 1..Len(probe.candidates) :
                    probe.candidates[k].triggerCategory \notin {"hot", "cold"}

\* rainy is the only flag, the forecast is hot and wet for three hours, the
\* day is a weekend day and a payday: the rain candidate alone is handed on
C8_Witness ==
    /\ probe.stage = "match" /\ probe.applied
    /\ probe.triggers = {"rainy"}
    /\ \A i \in 1..3 : probe.forecast[i] = Point(33, 50)
    /\ Len(probe.candidates) = 1
    /\ probe.candidates[1].triggerCategory = "rain"

IsSaturdayOrSunday(localDate) == (localDate - 3) % 7 \in {0, 1}

\* C11: weekendSpecials fires exactly when the local calendar date of the
\* business at the evaluation instant is a Saturday or a Sunday; each of two
\* businesses evaluated at the same instant is judged on its own local date
C11_WeekendOnLocalDate ==
    (probe.stage = "rule" /\ probe.applied) =>
        /\ probe.firesA <=>
              IsSaturdayOrSunday((probe.nowUTC + probe.timeZoneA) \div (24 * 60))
        /\ probe.firesB <=>
              IsSaturdayOrSunday((probe.nowUTC + probe.timeZoneB) \div (24 * 60))

\* the same instant is a weekend day at UTC+14 and a Friday at UTC-12, or
\* a Monday at UTC+14 and a Sunday at UTC-12
C11_Witness ==
    /\ probe.stage = "rule" /\ probe.applied
    /\ probe.timeZoneA = 840
    /\ probe.timeZoneB = 0 - 720
    /\ probe.firesA # probe.firesB

----------------------------------------------------------------------------
(* Retry over the cycles of a day.  Every schedule fires and every         *)
(* invocation returns before the next one is due; the external services    *)
(* may fail in the first cycle and answer afterwards; it rains from 07:00  *)
(* to 09:00 UTC of the first day, which every forecast that covers those   *)
(* hours shows.                                                            *)

\* Saturday 2025-02-01, 00:00 UTC
RetryOrigin == 31 * MINUTES_PER_DAY

\* the days after the first daily run that the clock covers
RetryDays == 1

\* rain from 07:00 to 09:00 and again from 22:00 to 24:00 UTC: 17:00-19:00
\* and 08:00-10:00 of the next day at UTC+10
RetryRainHours == {7, 8, 22, 23}

RetryForecast(evalTime) ==
    Forecast({}, { i \in 1..FORECAST_HOURS :
                    ((evalTime - RetryOrigin) \div 60) + i - 1 \in RetryRainHours })

FailuresAllowed == now < RetryOrigin + Hours(WEATHER_RATE_HOURS)

RetryResponses ==
    { [ok |-> TRUE, history |-> History, forecast |-> RetryForecast(now)] }
    \cup IF FailuresAllowed
         THEN { [ok |-> FALSE, history |-> <<>>, forecast |-> <<>>] }
         ELSE {}

\* check_weather runs in r1, check_time_triggers in r2
RetrySlot(kind) == IF kind = "weather" THEN "r1" ELSE "r2"

RetryInit ==
    /\ now = RetryOrigin
    /\ business = [b1 |-> Bakery, b2 |-> Incomplete]
    /\ upcomingJobs = [b \in Businesses |-> <<>>]
    /\ schedules = {}
    /\ run = [r \in Runs |-> IdleRun]
    /\ started = 0
    /\ deployedAt = DAILY_RUN_MINUTE
    /\ probe = <<>>

RetryTick ==
    /\ \A kind \in Kinds :
          DueNow(kind, now, deployedAt) => run[RetrySlot(kind)].pc = "done"
    /\ NextInstant(now) <= RetryOrigin + RetryDays * MINUTES_PER_DAY + DAILY_RUN_MINUTE
    /\ now' = NextInstant(now)
    /\ run' = [r \in Runs |-> IdleRun]
    /\ UNCHANGED <<business, upcomingJobs, schedules, started, deployedAt, probe>>

RetryLaunch(kind) ==
    /\ run[RetrySlot(kind)].pc = "idle"
    /\ DueNow(kind, now, deployedAt)
    /\ run' = [run EXCEPT ![RetrySlot(kind)] =
                  [IdleRun EXCEPT !.pc = "scan", !.kind = kind,
                                  !.todo = Businesses]]
    /\ UNCHANGED <<now, business, upcomingJobs, schedules, started, deployedAt, probe>>

RetryEvaluateWeather(r, b) ==
    /\ run[r].kind = "weather"
    /\ AtBusiness(r, b)
    /\ WellFormed(business[b])
    /\ \E resp \in RetryResponses :
          run' = [run EXCEPT ![r] = WeatherOutcome(@, b, resp)]
    /\ UNCHANGED <<now, business, upcomingJobs, schedules, started, deployedAt, probe>>

RetryCreateFails(r) == FailuresAllowed /\ CreateFails(r)

\* the steps of the engine; the record is written by check_weather and by
\* the consumer, whose removal between read and write fails the update
RetryEngine ==
    \/ RetryTick
    \/ \E kind \in Kinds : RetryLaunch(kind)
    \/ \E r \in Runs, b \in Businesses : SkipMalformed(r, b)
    \/ \E r \in Runs, b \in Businesses : RetryEvaluateWeather(r, b)
    \/ \E r \in Runs, b \in Businesses : EvaluateTime(r, b)
    \/ \E r \in Runs : CreateOk(r)
    \/ \E r \in Runs : RetryCreateFails(r)
    \/ \E r \in Runs : AppendEntry(r)
    \/ \E r \in Runs : AppendConflict(r)
    \/ \E r \in Runs : AppendDenied(r)

RetryNext ==
    \/ RetryEngine
    \/ \E b \in Businesses, i \in 1..2 : Consume(b, i)

SpecRetry == RetryInit /\ [][RetryNext]_vars /\ WF_vars(RetryEngine)

FailedFor(b, c) ==
    \E r \in Runs : \E res \in run[r].results :
        /\ res.businessId = b
        /\ res.triggerCategory = c
        /\ res.outcome = "SchedulingFailure"

DataUnavailableFor(b) ==
    \E r \in Runs : \E x \in run[r].skipped :
        x.businessId = b /\ x.reason = "DataUnavailable"

RecordedFor(b, c) ==
    \E k \in 1..Len(upcomingJobs[b]) : upcomingJobs[b][k].triggerCategory = c

WeatherRetryRecords ==
    /\ FailedFor("b1", "rain") ~> RecordedFor("b1", "rain")
    /\ DataUnavailableFor("b1") ~> RecordedFor("b1", "rain")

\* the stored list of b grows by one entry at its end
AppendsOne(b) ==
    /\ Len(upcomingJobs'[b]) = Len(upcomingJobs[b]) + 1
    /\ SubSeq(upcomingJobs'[b], 1, Len(upcomingJobs[b])) = upcomingJobs[b]

\* one entry of b, already due, leaves the list and no run moves
ConsumerRemovesOne(b) ==
    /\ run' = run
    /\ \E i \in 1..Len(upcomingJobs[b]) :
          /\ upcomingJobs[b][i].scheduledTimeUTC <= now
          /\ upcomingJobs'[b] = SubSeq(upcomingJobs[b], 1, i - 1)
                                  \o SubSeq(upcomingJobs[b], i + 1, Len(upcomingJobs[b]))

Requesting(r) == run[r].pc \in {"dedup", "append"}

TimeJobsInFuture ==
    \A r \in Runs :
        (Requesting(r) /\ run[r].kind = "time")
            => Head(run[r].candidates).scheduledTimeUTC > run[r].evalTime

\* the sum of the squared differences of all pairs of samples:
\* n^2 times the population variance
RECURSIVE PairSquares(_, _, _)
PairSquares(h, i, j) ==
    IF i > Len(h) THEN 0
    ELSE IF j > Len(h) THEN PairSquares(h, i + 1, i + 2)
    ELSE (h[i] - h[j]) * (h[i] - h[j]) + PairSquares(h, i, j + 1)

\* C15: for every non-empty history the deviation is the larger of the
\* population standard deviation and 0.5 (here 4 n^2 sigma^2 is the larger
\* of 4 n^2 variance and n^2), hence never below 0.5, equal samples included
C15_SigmaFloor ==
    (probe.stage = "baseline" /\ probe.applied) =>
        LET n == Len(probe.samples)
            v == 4 * PairSquares(probe.samples, 1, 2)
        IN  /\ probe.sigmaSq >= n * n
            /\ probe.sigmaSq = IF v >= n * n THEN v ELSE n * n
            /\ (\A i \in 1..n : probe.samples[i] = probe.samples[1])
                  => probe.sigmaSq = n * n

\* three equal samples: the deviation is the floor
C15_Witness ==
    /\ probe.stage = "baseline" /\ probe.applied
    /\ probe.samples = <<28, 28, 28>>
    /\ probe.sigmaSq = 9

----------------------------------------------------------------------------
(* One cycle with the businesses processed side by side.  The data of the  *)
(* cycle is fixed by the initial state: the function that runs, what       *)
(* Open-Meteo answers for each business and whether the Job Scheduling     *)
(* Service accepts the requests for it.  Each business has a worker of its *)
(* own; the workers' steps interleave in every way, one worker after the   *)
(* other in either order included.                                         *)

Worker(b) == IF b = "b1" THEN "r1" ELSE "r2"

\* a hot spell in the first two hours of the forecast, then back in the band
SpellForecast == <<Point(32, 0), Point(33, 0), Point(31, 0), Point(30, 0)>>

SpellResponse == [ok |-> TRUE, history |-> History, forecast |-> SpellForecast]

\* four hot hours, the last the hottest
HeatForecast == <<Point(32, 0), Point(32, 0), Point(32, 0), Point(33, 0)>>

HeatResponse == [ok |-> TRUE, history |-> History, forecast |-> HeatForecast]

OrderResponses == WeatherResponses \cup {SpellResponse, HeatResponse}

\* the bakery with a later opening: 11:00-20:00
LateBakery == [Bakery EXCEPT !.openTimeLocal = Hours(11)]

OrderTables == Tables \cup { [b1 |-> LateBakery, b2 |-> Bar] }

OrderInit ==
    /\ now \in {d * MINUTES_PER_DAY + DAILY_RUN_MINUTE : d \in StartDays}
    /\ business \in OrderTables
    /\ upcomingJobs = [b \in Businesses |-> <<>>]
    /\ schedules = {}
    /\ run = [r \in Runs |-> IdleRun]
    /\ started = 0
    /\ deployedAt = DAILY_RUN_MINUTE
    /\ probe \in { [stage |-> "order", kind |-> k, response |-> w, schedulerUp |-> u] :
                      k \in Kinds,
                      w \in [Businesses -> OrderResponses],
                      u \in [Businesses -> BOOLEAN] }

\* the handler has scanned the table and hands every business to a worker
OrderLaunch ==
    /\ \A r \in Runs : run[r].pc = "idle"
    /\ run' = [r \in Runs |->
                  [IdleRun EXCEPT !.pc = "scan", !.kind = probe.kind,
                                  !.todo = {b \in Businesses : Worker(b) = r}]]
    /\ UNCHANGED <<now, business, upcomingJobs, schedules, started, deployedAt, probe>>

OrderEvaluate(r, b) ==
    /\ AtBusiness(r, b)
    /\ WellFormed(business[b])
    /\ run' = [run EXCEPT ![r] =
                  IF probe.kind = "weather"
                  THEN WeatherOutcome(@, b, probe.response[b])
                  ELSE BeginBusiness(@, b, TimeCandidates(business[b], now), "time")]
    /\ UNCHANGED <<now, business, upcomingJobs, schedules, started, deployedAt, probe>>

OrderCreateOk(r) ==
    /\ run[r].pc = "dedup"
    /\ probe.schedulerUp[run[r].cur]
    /\ CreateOk(r)

OrderCreateFails(r) ==
    /\ run[r].pc = "dedup"
    /\ ~probe.schedulerUp[run[r].cur]
    /\ CreateFails(r)

\* no two workers write the same record: no conditional update fails
OrderNext ==
    \/ OrderLaunch
    \/ \E r \in Runs, b \in Businesses : SkipMalformed(r, b)
    \/ \E r \in Runs, b \in Businesses : OrderEvaluate(r, b)
    \/ \E r \in Runs : OrderCreateOk(r)
    \/ \E r \in Runs : OrderCreateFails(r)
    \/ \E r \in Runs : AppendEntry(r)
    \/ \E r \in Runs : AppendDenied(r)

SpecOrder == OrderInit /\ [][OrderNext]_vars

\* what the pipeline finds for b on the data of the cycle
CycleCandidates(b) ==
    IF ~WellFormed(business[b]) THEN <<>>
    ELSE IF probe.kind = "time" THEN TimeCandidates(business[b], now)
    ELSE IF ~probe.response[b].ok \/ probe.response[b].history = <<>> THEN <<>>
    ELSE WeatherCandidates(business[b], probe.response[b].forecast,
                           probe.response[b].history, now)

\* what b's record and the scheduler hold when b is processed alone
AloneJobs(b) ==
    IF probe.schedulerUp[b] /\ probe.kind = "weather"
    THEN [k \in 1..Len(CycleCandidates(b)) |-> Entry(b, CycleCandidates(b)[k], Worker(b))]
    ELSE <<>>

AloneSchedules(b) ==
    IF probe.schedulerUp[b]
    THEN { Invocation(b, CycleCandidates(b)[k], Worker(b)) :
              k \in 1..Len(CycleCandidates(b)) }
    ELSE {}

CycleOver == \A r \in Runs : run[r].pc = "done"

\* C16: when the cycle is over, every business's upcomingJobs and the
\* invocations held by the Job Scheduling Service are what processing each
\* business alone gives, whatever the order or the interleaving in which
\* the businesses were processed
C16_OrderIndependent ==
    (probe.stage = "order" /\ CycleOver) =>
        /\ \A b \in Businesses : upcomingJobs[b] = AloneJobs(b)
        /\ schedules = UNION { AloneSchedules(b) : b \in Businesses }

\* both businesses got a rain job for the same hour, each in its own record
C16_Witness ==
    /\ probe.stage = "order" /\ CycleOver
    /\ \A b \in Businesses :
          /\ Len(upcomingJobs[b]) = 1
          /\ upcomingJobs[b][1].triggerCategory = "rain"
          /\ upcomingJobs[b][1].scheduledTimeUTC = upcomingJobs["b1"][1].scheduledTimeUTC
    /\ Cardinality(schedules) = 2

----------------------------------------------------------------------------
SKIP_REASONS == {"DataUnavailable", "InsufficientBaseline", "MalformedRecord"}

SkippedIn(rec, b) ==
    \E x \in rec.skipped : x.businessId = b /\ x.reason \in SKIP_REASONS

RequestedIn(rec, b) ==
    \/ \E x \in rec.results : x.businessId = b
    \/ rec.cur = b

\* C17: a business that hits DataUnavailable, InsufficientBaseline or
\* MalformedRecord in a cycle is skipped for that cycle: the step that skips
\* it changes neither the schedules nor its upcomingJobs, and the run makes
\* no request to the Job Scheduling Service for it
C17_SkippedUntouched ==
    [][\A r \in Runs, b \in Businesses :
          SkippedIn(run'[r], b) =>
              /\ ~RequestedIn(run'[r], b)
              /\ ~SkippedIn(run[r], b) =>
                    /\ schedules' = schedules
                    /\ upcomingJobs'[b] = upcomingJobs[b]]_vars

\* each of the three reasons has occurred in a run in flight, every business
\* was skipped, and nothing was requested or written
C17_Witness ==
    /\ \A why \in SKIP_REASONS :
          \E r \in Runs, b \in Businesses : Skip(b, why) \in run[r].skipped
    /\ \A b \in Businesses : \E r \in Runs : SkippedIn(run[r], b)
    /\ schedules = {}
    /\ \A b \in Businesses : upcomingJobs[b] = <<>>

----------------------------------------------------------------------------
(* The scan of one forecast.  With History the mean is 28 and sigma 2: an  *)
(* hour is hot above 31 and cold below 25; it is wet above 0.2 mm.  The    *)
(* window at position i begins i - 1 hours after 10:00 local.              *)

Scanned == probe.stage = "scan" /\ probe.applied

HourIs(c, i) ==
    CASE c = "hot"  -> probe.forecast[i].temperature > 31
      [] c = "cold" -> probe.forecast[i].temperature < 25
      [] c = "rain" -> probe.forecast[i].precipitation > 2

QualifyingStarts(c) == { i \in 1..3 : HourIs(c, i) /\ HourIs(c, i + 1) }

OpenAtStart(i) == Hours(10) + Hours(i - 1) >= probe.openTimeLocal

\* the position of the window selected for category c, 0 when there is none
SelectedStart(c) ==
    IF \E k \in 1..Len(probe.candidates) : probe.candidates[k].triggerCategory = c
    THEN LET k == CHOOSE k \in 1..Len(probe.candidates) :
                      probe.candidates[k].triggerCategory = c
         IN  (probe.candidates[k].scheduledTimeUTC
                 - (ProbeEvalTime \div 60) * 60) \div 60 + 1
    ELSE 0

C19_EveryHourStrictly ==
    Scanned =>
        \A k \in 1..Len(probe.candidates) :
            LET c == probe.candidates[k].triggerCategory
                i == SelectedStart(c)
            IN  /\ i \in 1..3
                /\ c = "hot" => /\ probe.forecast[i].temperature >= 32
                                /\ probe.forecast[i + 1].temperature >= 32
                /\ c = "cold" => /\ probe.forecast[i].temperature <= 24
                                 /\ probe.forecast[i + 1].temperature <= 24
                /\ c = "rain" => /\ probe.forecast[i].precipitation >= 3
                                 /\ probe.forecast[i + 1].precipitation >= 3

\* one hot hour between an hour inside the band and an hour on the
\* threshold: nothing is detected
C19_Witness ==
    /\ Scanned
    /\ probe.openTimeLocal = Hours(8)
    /\ probe.forecast = <<Point(30, 0), Point(32, 0), Point(31, 0), Point(30, 0)>>
    /\ probe.candidates = <<>>

----------------------------------------------------------------------------
\* the bakery (08:00-20:00 at UTC+10, hotSunny enabled, no pending entry)
\* evaluated at 10:10 local on the hot spell, the scheduler available
SpellCase ==
    /\ probe.stage = "order"
    /\ probe.kind = "weather"
    /\ probe.response["b1"] = SpellResponse
    /\ probe.schedulerUp["b1"]
    /\ business["b1"] = Bakery
    /\ CycleOver

\* C20: with mu = 28 and sigma = 2, forecast hours 32, 33, 31, 30, the
\* window inside the hours 08:00-20:00, hotSunny enabled and no pending
\* entry, exactly one upcomingJobs entry is created: its category is hot
\* and its scheduledTimeUTC is the start of the window at hour 0, the
\* first hour of the forecast
C20_JobAtWindowStart ==
    SpellCase =>
        /\ Len(upcomingJobs["b1"]) = 1
        /\ upcomingJobs["b1"][1].triggerCategory = "hot"
        /\ upcomingJobs["b1"][1].scheduledTimeUTC = now - DAILY_RUN_MINUTE
        /\ \A inv \in schedules :
              inv.businessId = "b1" =>
                  /\ inv.triggerCategory = "hot"
                  /\ inv.scheduledTimeUTC = now - DAILY_RUN_MINUTE

C20_Witness ==
    /\ SpellCase
    /\ MinuteOfDay(LocalMinutes(now, Bakery.timeZone)) = Hours(10) + DAILY_RUN_MINUTE
    /\ Len(upcomingJobs["b1"]) = 1
    /\ \E inv \in schedules :
          /\ inv.businessId = "b1"
          /\ MinuteOfDay(LocalMinutes(inv.scheduledTimeUTC, Bakery.timeZone)) = Hours(10)

----------------------------------------------------------------------------
\* the weather path has run for business b on usable data, the scheduler
\* available, nothing pending before
WeatherPathRan(b) ==
    /\ probe.stage = "order"
    /\ probe.kind = "weather"
    /\ WellFormed(business[b])
    /\ probe.response[b].ok
    /\ probe.response[b].history # <<>>
    /\ probe.schedulerUp[b]
    /\ CycleOver

QualifyingAt(b, c) ==
    { i \in Positions(probe.response[b].forecast) :
        WindowQualifies(probe.response[b].forecast, i, c, probe.response[b].history) }

\* the local minutes of the day at which the window at position i begins
\* and ends
LocalStartOf(b, i) ==
    (((now \div 60) * 60 + Hours(i - 1) + business[b].timeZone) % MINUTES_PER_DAY)

LocalEndOf(b, i) ==
    (((now \div 60) * 60 + Hours(i + 1) + business[b].timeZone) % MINUTES_PER_DAY)

Open(b, m) ==
    IF business[b].openTimeLocal <= business[b].closeTimeLocal
    THEN business[b].openTimeLocal <= m /\ m < business[b].closeTimeLocal
    ELSE m >= business[b].openTimeLocal \/ m < business[b].closeTimeLocal

ValidAt(b, c) ==
    { i \in QualifyingAt(b, c) : Open(b, LocalStartOf(b, i)) /\ Open(b, LocalEndOf(b, i)) }

ScheduledAt(b, c, t) ==
    /\ \E k \in 1..Len(upcomingJobs[b]) :
          /\ upcomingJobs[b][k].triggerCategory = c
          /\ upcomingJobs[b][k].scheduledTimeUTC = t
    /\ \E inv \in schedules :
          /\ inv.businessId = b
          /\ inv.triggerCategory = c
          /\ inv.scheduledTimeUTC = t

\* C21: whenever the forecast holds a window that qualifies for a
\* category, lies in the operating hours and maps to an enabled preference,
\* and nothing is pending, the weather path schedules a job at the first
\* such window, also when an earlier qualifying window of the category is
\* outside the operating hours
C21_FirstValidWindow ==
    \A b \in Businesses, c \in WeatherCategories :
        (WeatherPathRan(b) /\ PreferenceFor(c) \in business[b].triggers
            /\ ValidAt(b, c) # {}) =>
            LET first == CHOOSE i \in ValidAt(b, c) : \A j \in ValidAt(b, c) : i <= j
            IN  ScheduledAt(b, c, (now \div 60) * 60 + Hours(first - 1))

\* the bakery opens at 11:00: the hot window that begins at 10:00 local is
\* outside the hours, and the job is at 11:00 local
C21_Witness ==
    /\ WeatherPathRan("b1")
    /\ business["b1"] = LateBakery
    /\ probe.response["b1"] = HeatResponse
    /\ 1 \in QualifyingAt("b1", "hot")
    /\ 1 \notin ValidAt("b1", "hot")
    /\ ScheduledAt("b1", "hot", (now \div 60) * 60 + Hours(1))

----------------------------------------------------------------------------
(* The life of a pair (business, category): IDLE while the record holds no *)
(* entry of the category, SCHEDULED while it holds one.                    *)

SecondSpell == RetryOrigin + Hours(22)

\* an invocation of the pair has fired and its entry is off the record
ConsumedFor(b, c) ==
    /\ ~RecordedFor(b, c)
    /\ \E inv \in schedules :
          /\ inv.businessId = b
          /\ inv.triggerCategory = c
          /\ inv.scheduledTimeUTC <= now

----------------------------------------------------------------------------
\* the daily evaluation of one business, done
TimeApplied == probe.stage = "time" /\ probe.applied

LocalDateOfNow == (probe.nowUTC + probe.timeZone) \div (24 * 60)

LocalDateOfTarget == (probe.target + probe.timeZone) \div (24 * 60)

----------------------------------------------------------------------------
(* The web client.  The pages keep their state in React state and in       *)
(* localStorage; the engine's variables play no part and stay as they are. *)

EngineAtRest ==
    /\ now = 0
    /\ business = [b \in Businesses |-> Bakery]
    /\ upcomingJobs = [b \in Businesses |-> <<>>]
    /\ schedules = {}
    /\ run = [r \in Runs |-> IdleRun]
    /\ started = 0
    /\ deployedAt = DAILY_RUN_MINUTE

EngineUntouched ==
    UNCHANGED <<now, business, upcomingJobs, schedules, run, started, deployedAt>>

----------------------------------------------------------------------------
(* Instagram OAuth: SocialMediaConnection.handleConnectInstagram and the   *)
(* page InstagramCallback.  "none" is an absent parameter or item.         *)

OAuthStates == {"none", "s1", "s2"}

OAuthCodes == {"none", "c1"}

\* the exchanges sent in one browser session: at most this many
MaxExchanges == 2

\* the social media page, with or without a state left from an earlier try
CallbackInit ==
    /\ EngineAtRest
    /\ probe \in { [stage |-> "callback", page |-> "connection", signedIn |-> si,
                     loading |-> FALSE, user |-> IF si THEN "u1" ELSE "none",
                     code |-> "none", state |-> "none", error |-> FALSE,
                     storedState |-> st, status |-> "loading",
                     effect |-> FALSE, inflight |-> FALSE, sent |-> 0] :
                      si \in BOOLEAN, st \in {"none", "s2"} }

\* handleConnectInstagram: a fresh state goes to localStorage and into the
\* authorisation URL, the browser leaves for Instagram
ConnectInstagram ==
    /\ probe.stage = "callback"
    /\ probe.page = "connection"
    /\ probe' = [probe EXCEPT !.storedState = "s1", !.page = "instagram"]
    /\ EngineUntouched

\* the browser loads /instagram/callback, sent by Instagram or by any link:
\* the parameters are whatever the URL carries; AuthProvider starts loading
\* and the effect of the page runs on mount
OpenCallback ==
    /\ probe.stage = "callback"
    /\ probe.page \in {"connection", "instagram"}
    /\ probe.sent < MaxExchanges
    /\ \E c \in OAuthCodes, s \in OAuthStates, e \in BOOLEAN :
          probe' = [probe EXCEPT !.page = "callback", !.code = c, !.state = s,
                                 !.error = e, !.loading = TRUE, !.user = "none",
                                 !.status = "loading", !.effect = TRUE]
    /\ EngineUntouched

\* checkAuthState: user and loading are set together; the effect's
\* dependencies changed
CheckAuthState ==
    /\ probe.stage = "callback"
    /\ probe.page = "callback"
    /\ probe.loading
    /\ probe' = [probe EXCEPT !.loading = FALSE,
                               !.user = IF probe.signedIn THEN "u1" ELSE "none",
                               !.effect = TRUE]
    /\ EngineUntouched

CallbackDecisionNoStateCheck(p) ==
    IF p.loading THEN "wait"
    ELSE IF p.user = "none" THEN "error"
    ELSE IF p.error THEN "error"
    ELSE IF p.code = "none" \/ p.state = "none" THEN "error"
    ELSE "exchange"

\* handleCallback up to the fetch
CallbackDecision(p) ==
    IF p.loading THEN "wait"
    ELSE IF p.user = "none" THEN "error"
    ELSE IF p.error THEN "error"
    ELSE IF p.code = "none" \/ p.state = "none" THEN "error"
    ELSE IF p.storedState = "none" \/ p.storedState # p.state THEN "error"
    ELSE "exchange"

HandleCallback ==
    /\ probe.stage = "callback"
    /\ probe.page = "callback"
    /\ probe.effect
    /\ probe' =
          CASE CallbackDecision(probe) = "wait" ->
                  [probe EXCEPT !.effect = FALSE]
            [] CallbackDecision(probe) = "error" ->
                  [probe EXCEPT !.effect = FALSE, !.status = "error"]
            [] OTHER ->
                  [probe EXCEPT !.effect = FALSE, !.inflight = TRUE,
                                !.sent = @ + 1]
    /\ EngineUntouched

\* the exchange answered ok: the stored state is removed
ExchangeOk ==
    /\ probe.stage = "callback"
    /\ probe.inflight
    /\ probe' = [probe EXCEPT !.inflight = FALSE, !.storedState = "none",
                               !.status = "success"]
    /\ EngineUntouched

\* the exchange answered not ok, or the fetch threw
ExchangeFails ==
    /\ probe.stage = "callback"
    /\ probe.inflight
    /\ probe' = [probe EXCEPT !.inflight = FALSE, !.status = "error"]
    /\ EngineUntouched

\* the timer set with the final status takes the browser back
LeaveCallback ==
    /\ probe.stage = "callback"
    /\ probe.page = "callback"
    /\ probe.status \in {"success", "error"}
    /\ ~probe.inflight
    /\ probe' = [probe EXCEPT !.page = "connection"]
    /\ EngineUntouched

CallbackNext ==
    \/ ConnectInstagram
    \/ OpenCallback
    \/ CheckAuthState
    \/ HandleCallback
    \/ ExchangeOk
    \/ ExchangeFails
    \/ LeaveCallback

SpecCallback == CallbackInit /\ [][CallbackNext]_vars

\* the conditions of the exchange, on the state in which handleCallback runs
ExchangeAllowed ==
    /\ ~probe.loading
    /\ probe.user # "none"
    /\ ~probe.error
    /\ probe.code # "none"
    /\ probe.state # "none"
    /\ probe.storedState = probe.state

\* C24: the callback page sends the token exchange only when auth has
\* loaded with a signed-in user, the URL has no error parameter, code and
\* state are present and the state equals the stored instagram_oauth_state;
\* a run of handleCallback with auth loaded and one of these missing ends in
\* status error without sending
C24_ExchangeOnlyWhenValidated ==
    [][/\ probe'.sent # probe.sent => ExchangeAllowed
       /\ (probe.effect /\ ~probe'.effect /\ ~probe.loading /\ ~ExchangeAllowed)
              => (probe'.status = "error" /\ probe'.sent = probe.sent
                    /\ ~probe'.inflight)]_vars

\* the exchange is in flight for the state that handleConnectInstagram stored
C24_Witness ==
    /\ probe.stage = "callback"
    /\ probe.inflight
    /\ probe.sent = 1
    /\ probe.state = "s1" /\ probe.storedState = "s1"
    /\ probe.code = "c1" /\ probe.user = "u1"

----------------------------------------------------------------------------
(* The guards of the pages /dashboard, /onboarding and                     *)
(* /social-media-connection.  Each page asks the backend for the business  *)
(* of the user when it is shown and redirects on the answer.               *)

GuardedPages == {"/dashboard", "/onboarding", "/social-media-connection"}

\* what GET /businesses?userId= gives: no business, a business without or
\* with Instagram connected, or an error
BackendStates == {"none", "unconnected", "connected", "unreachable"}

\* the redirects of one browser session: at most this many
MaxHops == 4

\* the state of a page when it is mounted
FreshPage(p, route) ==
    [p EXCEPT !.route = route, !.mounted = FALSE, !.effect = route \in GuardedPages,
              !.fetch = FALSE, !.response = "unasked", !.checking = TRUE,
              !.businessData = "none", !.pending = "none"]

\* the browser loads one of the pages; AuthProvider starts loading
PagesInit ==
    /\ EngineAtRest
    /\ probe \in { FreshPage([stage |-> "pages", backend |-> be, signedIn |-> si,
                               loading |-> TRUE, user |-> "none",
                               instagramReconnected |-> rc, updatedItem |-> ui,
                               hops |-> 0,
                               route |-> r, mounted |-> FALSE, effect |-> TRUE,
                               fetch |-> FALSE, response |-> "unasked",
                               checking |-> TRUE, businessData |-> "none",
                               pending |-> "none"], r) :
                      be \in BackendStates, si \in BOOLEAN, rc \in BOOLEAN,
                      ui \in BOOLEAN, r \in GuardedPages }

\* checkAuthState: user and loading are set together; the effects that
\* depend on them run again
PagesAuthLoaded ==
    /\ probe.stage = "pages"
    /\ probe.loading
    /\ ~probe.effect
    /\ probe' = [probe EXCEPT !.loading = FALSE,
                               !.user = IF probe.signedIn THEN "u1" ELSE "none",
                               !.effect = probe.route \in GuardedPages]
    /\ EngineUntouched

\* Dashboard: the effect of checkBusinessProfile and, on mount, the effect
\* of the Instagram reconnection
DashboardEffects ==
    /\ probe.stage = "pages"
    /\ probe.route = "/dashboard"
    /\ probe.effect
    /\ probe' = [probe EXCEPT
            !.effect = FALSE,
            !.mounted = TRUE,
            !.fetch = @ \/ (~probe.loading /\ probe.user # "none"),
            !.businessData =
                IF ~probe.mounted /\ probe.instagramReconnected /\ probe.updatedItem
                THEN "local" ELSE @,
            !.updatedItem =
                IF ~probe.mounted /\ probe.instagramReconnected THEN FALSE ELSE @,
            !.instagramReconnected = IF ~probe.mounted THEN FALSE ELSE @]
    /\ EngineUntouched

\* Onboarding: checkExistingBusiness up to the request
OnboardingEffects ==
    /\ probe.stage = "pages"
    /\ probe.route = "/onboarding"
    /\ probe.effect
    /\ probe' = [probe EXCEPT
            !.effect = FALSE,
            !.mounted = TRUE,
            !.pending = IF ~probe.loading /\ probe.user = "none" THEN "/" ELSE @,
            !.fetch = @ \/ (~probe.loading /\ probe.user # "none")]
    /\ EngineUntouched

\* SocialMediaConnection: the effect that calls fetchBusinessData
ConnectionEffects ==
    /\ probe.stage = "pages"
    /\ probe.route = "/social-media-connection"
    /\ probe.effect
    /\ probe' = [probe EXCEPT
            !.effect = FALSE,
            !.mounted = TRUE,
            !.fetch = @ \/ (~probe.loading /\ probe.user # "none"),
            !.checking = IF probe.loading THEN @
                         ELSE probe.user # "none"]
    /\ EngineUntouched

\* checkBusinessProfile on the answer of getBusiness: where it navigates
DashboardRedirect(resp) ==
    CASE resp = "connected"   -> "none"
      [] resp = "unconnected" -> "/social-media-connection"
      [] OTHER                -> "/onboarding"

DashboardStillLoadingNever(resp) == FALSE

\* the redirecting branches return before setLoadingBusiness(false)
DashboardStillLoading(resp) == DashboardRedirect(resp) # "none"

ConnectionRedirectProceeds(resp) ==
    CASE resp = "none" -> "/onboarding"
      [] resp \in {"unconnected", "connected"} -> "/dashboard"
      [] OTHER -> "none"

\* fetchBusinessData: no business sends to onboarding, anything else stays
ConnectionRedirect(resp) ==
    IF resp = "none" THEN "/onboarding" ELSE "none"

\* checkExistingBusiness on the answer of getBusiness
OnboardingRedirect(resp) ==
    CASE resp = "connected"   -> "/dashboard"
      [] resp = "unconnected" -> "/social-media-connection"
      [] OTHER                -> "none"

DashboardResponse ==
    /\ probe.stage = "pages"
    /\ probe.route = "/dashboard"
    /\ probe.fetch
    /\ probe' = [probe EXCEPT
            !.fetch = FALSE,
            !.response = probe.backend,
            !.businessData = IF probe.backend = "connected" THEN "fetched" ELSE @,
            !.pending = DashboardRedirect(probe.backend),
            !.checking = @ /\ DashboardStillLoading(probe.backend)]
    /\ EngineUntouched

OnboardingResponse ==
    /\ probe.stage = "pages"
    /\ probe.route = "/onboarding"
    /\ probe.fetch
    /\ probe' = [probe EXCEPT
            !.fetch = FALSE,
            !.response = probe.backend,
            !.pending = OnboardingRedirect(probe.backend),
            !.checking = @ /\ OnboardingRedirect(probe.backend) # "none"]
    /\ EngineUntouched

ConnectionResponse ==
    /\ probe.stage = "pages"
    /\ probe.route = "/social-media-connection"
    /\ probe.fetch
    /\ probe' = [probe EXCEPT
            !.fetch = FALSE,
            !.response = probe.backend,
            !.businessData =
                IF probe.backend \in {"unconnected", "connected"} THEN "fetched" ELSE @,
            !.pending = ConnectionRedirect(probe.backend),
            !.checking = FALSE]
    /\ EngineUntouched

\* navigate(): the page is replaced, the provider of auth stays
Navigate ==
    /\ probe.stage = "pages"
    /\ probe.pending # "none"
    /\ probe.hops < MaxHops
    /\ probe' = [FreshPage(probe, probe.pending) EXCEPT !.hops = @ + 1]
    /\ EngineUntouched

PagesNext ==
    \/ PagesAuthLoaded
    \/ DashboardEffects
    \/ OnboardingEffects
    \/ ConnectionEffects
    \/ DashboardResponse
    \/ OnboardingResponse
    \/ ConnectionResponse
    \/ Navigate

SpecPages == PagesInit /\ [][PagesNext]_vars

\* every pending effect, answer and redirect is eventually carried out
SpecPagesFair == SpecPages /\ WF_vars(PagesNext)

\* what Dashboard renders: the spinner while loading || loadingBusiness,
\* then the redirect to / without a user, then the dashboard
DashboardContentShown ==
    /\ probe.stage = "pages"
    /\ probe.route = "/dashboard"
    /\ ~probe.loading
    /\ ~probe.checking
    /\ probe.user # "none"

\* C25: the Dashboard leaves its loading state and shows the dashboard
\* only after getBusiness returned a business with Instagram connected;
\* with no business or a failed fetch it redirects to /onboarding, with a
\* business without Instagram to /social-media-connection
C25_DashboardGuard ==
    (probe.stage = "pages" /\ probe.route = "/dashboard") =>
        /\ DashboardContentShown =>
              (probe.response = "connected" /\ probe.businessData = "fetched")
        /\ probe.response \in {"none", "unreachable"} =>
              (probe.pending = "/onboarding" /\ ~DashboardContentShown)
        /\ probe.response = "unconnected" =>
              (probe.pending = "/social-media-connection" /\ ~DashboardContentShown)

\* the dashboard is shown for a user whose business has Instagram connected
C25_Witness ==
    /\ DashboardContentShown
    /\ probe.backend = "connected"
    /\ probe.businessData = "fetched"
    /\ probe.hops = 0

\* the page has finished its check and has no redirect to make
PageSettled ==
    /\ probe.stage = "pages"
    /\ ~probe.loading
    /\ ~probe.effect
    /\ ~probe.fetch
    /\ probe.pending = "none"

\* C28: for a fixed state of the backend and a signed-in user, the
\* redirects between /dashboard, /onboarding and /social-media-connection
\* end: after at most one redirect the browser is, and stays, on a page
\* that issues no further redirect
C28_RedirectsEnd ==
    probe.signedIn => (<>[]PageSettled /\ [](probe.hops <= 1))

\* no business: /dashboard has sent the browser to /onboarding, which stays
C28_Witness ==
    /\ PageSettled
    /\ probe.signedIn
    /\ probe.backend = "none"
    /\ probe.route = "/onboarding"
    /\ probe.hops = 1

----------------------------------------------------------------------------
(* The onboarding wizard (Onboarding.tsx).  A click on Continue or Back    *)
(* starts a timer of 300 ms that changes currentStep when it fires; the    *)
(* timers fire in the order in which they were started.  overlapped        *)
(* records that the user clicked or typed while a timer was pending.       *)

\* welcome, businessName, location, businessType, brandVoice, peakTime,
\* products, triggers, complete
STEP_IDS ==
    <<"welcome", "businessName", "location", "businessType", "brandVoice",
      "peakTime", "products", "triggers", "complete">>

STEPS_LENGTH == Len(STEP_IDS)

\* the steps with an input; peakTime stands for openTimeLocal and
\* closeTimeLocal, location for the address with latitude and longitude
FormSteps ==
    {"businessName", "location", "businessType", "brandVoice", "peakTime", "products"}

\* the timers that can be pending at a time: at most this many
MaxPending == 2

WizardInit ==
    /\ EngineAtRest
    /\ probe = [stage |-> "wizard", currentStep |-> 0, filled |-> {},
                pendingTimers |-> <<>>, isSubmitting |-> FALSE,
                sent |-> FALSE, sentFrom |-> 0, sentFilled |-> {},
                leaving |-> FALSE, overlapped |-> FALSE]

\* steps[currentStep] is defined; otherwise rendering throws and the page
\* is gone
Rendered == probe.stage = "wizard" /\ probe.currentStep \in 0..(STEPS_LENGTH - 1)

CurrentId == STEP_IDS[probe.currentStep + 1]

\* handleInputChange / handleLocationSelect: the input of the current step
\* gets a value, or is emptied
ChangeInput ==
    /\ Rendered
    /\ CurrentId \in FormSteps
    /\ \E value \in {{}, {CurrentId}} :
          probe' = [probe EXCEPT
              !.filled = (@ \ {CurrentId}) \cup value,
              !.overlapped = @ \/ probe.pendingTimers # <<>>]
    /\ EngineUntouched

StartTimer(p, kind) ==
    [p EXCEPT !.pendingTimers = Append(@, kind),
              !.overlapped = @ \/ p.pendingTimers # <<>>]

\* handleNext on a step before the last: validate, then setTimeout
ClickContinue ==
    /\ Rendered
    /\ CurrentId # "complete"
    /\ ~probe.isSubmitting
    /\ Len(probe.pendingTimers) < MaxPending
    /\ CurrentId \in FormSteps => CurrentId \in probe.filled
    /\ probe' = StartTimer(probe, "next")
    /\ EngineUntouched

\* handleNext on the last step: createBusiness(businessData)
ClickFinish ==
    /\ Rendered
    /\ CurrentId = "complete"
    /\ ~probe.isSubmitting
    /\ probe' = [probe EXCEPT !.isSubmitting = TRUE, !.sent = TRUE,
                               !.sentFrom = probe.currentStep,
                               !.sentFilled = probe.filled]
    /\ EngineUntouched

\* the request returned: on success the page is left one second later;
\* finally setIsSubmitting(false)
CreateReturns ==
    /\ probe.stage = "wizard"
    /\ probe.isSubmitting
    /\ \E ok \in BOOLEAN :
          probe' = [probe EXCEPT !.isSubmitting = FALSE,
                                 !.leaving = @ \/ ok]
    /\ EngineUntouched

\* navigate('/social-media-connection'): the wizard is unmounted and its
\* timers have no effect any more
LeaveWizard ==
    /\ probe.stage = "wizard"
    /\ probe.leaving
    /\ probe' = [probe EXCEPT !.stage = "left", !.pendingTimers = <<>>]
    /\ EngineUntouched

\* handleBack: the button is disabled on step 0
ClickBack ==
    /\ Rendered
    /\ probe.currentStep > 0
    /\ Len(probe.pendingTimers) < MaxPending
    /\ probe' = StartTimer(probe, "back")
    /\ EngineUntouched

\* the functional updates of setCurrentStep
StepAfter(step, kind) ==
    IF kind = "next"
    THEN (IF step + 1 < STEPS_LENGTH - 1 THEN step + 1 ELSE STEPS_LENGTH - 1)
    ELSE step - 1

\* the oldest timer fires
TimerFires ==
    /\ Rendered
    /\ probe.pendingTimers # <<>>
    /\ probe' = [probe EXCEPT
            !.currentStep = StepAfter(@, Head(probe.pendingTimers)),
            !.pendingTimers = Tail(@)]
    /\ EngineUntouched

WizardNext ==
    \/ ChangeInput
    \/ ClickContinue
    \/ ClickFinish
    \/ CreateReturns
    \/ LeaveWizard
    \/ ClickBack
    \/ TimerFires

SpecWizard == WizardInit /\ [][WizardNext]_vars

\* C26: currentStep stays within 0..steps.length-1 under every
\* interleaving of Continue clicks, Back clicks and the delayed updates, so
\* steps[currentStep] is always defined
C26_StepInRange ==
    probe.stage = "wizard" => probe.currentStep \in 0..(STEPS_LENGTH - 1)

\* C26 holds when the user does nothing during the 300 ms of a timer
StepInRangeWithoutOverlap ==
    (probe.stage = "wizard" /\ ~probe.overlapped) =>
        probe.currentStep \in 0..(STEPS_LENGTH - 1)

\* C27: the create-business request is sent only from the final step and
\* only when every form step was validated, so that businessName, location
\* with latitude and longitude, businessType, brandVoice, products,
\* openTimeLocal and closeTimeLocal are all non-empty
C27_CreateOnlyValidated ==
    (probe.stage \in {"wizard", "left"} /\ probe.sent) =>
        /\ probe.sentFrom = STEPS_LENGTH - 1
        /\ probe.sentFilled = FormSteps

\* C27 holds when the user does nothing during the 300 ms of a timer
CreateValidatedWithoutOverlap ==
    (probe.stage \in {"wizard", "left"} /\ probe.sent /\ ~probe.overlapped) =>
        /\ probe.sentFrom = STEPS_LENGTH - 1
        /\ probe.sentFilled = FormSteps

----------------------------------------------------------------------------
(* The weekend rule and the roll to the next day, in the engine            *)

WeekendJobs == { s \in schedules : s.triggerCategory = "weekendSpecials" }

JobLocalMinutes(s) == s.scheduledTimeUTC + business[s.businessId].timeZone

JobLocalDate(s) == JobLocalMinutes(s) \div (24 * 60)

\* 10:00 local of the day before the job's date was not ahead any more
\* when the job was created
RolledJob(s) ==
    (JobLocalDate(s) - 1) * 24 * 60 + 10 * 60 - business[s.businessId].timeZone <= now

----------------------------------------------------------------------------
(* Invocations and the ledger                                              *)

\* the dispatch of run r for its current candidate ends in this step: the
\* run has asked for the write of the entry and does not try it again
DispatchEnds(r) ==
    /\ run[r].pc = "append"
    /\ now' = now
    /\ run'[r] # run[r]
    /\ ~(/\ run'[r].pc = "dedup"
         /\ run'[r].cur = run[r].cur
         /\ run'[r].candidates = run[r].candidates)

EntryPresentAfter(r) ==
    \E k \in 1..Len(upcomingJobs'[run[r].cur]) :
        /\ upcomingJobs'[run[r].cur][k].triggerCategory =
              Head(run[r].candidates).triggerCategory
        /\ upcomingJobs'[run[r].cur][k].scheduledTimeUTC =
              Head(run[r].candidates).scheduledTimeUTC

\* C30: when a dispatch has finished, the one-off invocation it created
\* has its entry in the business's upcomingJobs, also when the write of the
\* entry failed or lost its conditional update
C30_InvocationsInLedger ==
    [][\A r \in Runs : DispatchEnds(r) => EntryPresentAfter(r)]_vars

\* the same for the dispatches of check_weather alone
WeatherInvocationsInLedger ==
    [][\A r \in Runs :
          (DispatchEnds(r) /\ run[r].kind = "weather") => EntryPresentAfter(r)]_vars

====
